---------------------------- MODULE Spec2Model ----------------------------
(***************************************************************************)
(* Model of practica2.py: the breadth-first dependency-graph builder       *)
(* (bfs_build_dependency_graph), the pom.xml dependency extractor          *)
(* (parse_maven_dependencies) and the fixture lookup                       *)
(* (fetch_dependencies_mock).                                              *)
(*                                                                         *)
(* Strings are sequences of one-character strings, so that substring and   *)
(* strip are computed rather than assumed.                                 *)
(***************************************************************************)
EXTENDS Integers, Sequences, FiniteSets

\* ------------------------------------------------------------------ bounds
\* Longest dependency list fetch_deps_func returns for one package.
MaxDeps == 2

\* Most sections in a pom.xml, and most <dependency> entries in a section.
MaxSections == 2

MaxEntries == 1

\* Most entries of a fixture list, and most characters of one entry.
MaxRawDeps == 2

MaxRawLen == 2

\* ------------------------------------------------------- string helpers
Range(s) == {s[k] : k \in 1..Len(s)}

\* Python `sub in s` for strings.
Contains(sub, s) ==
    \E k \in 0..(Len(s) - Len(sub)) : SubSeq(s, k + 1, k + Len(sub)) = sub

\* ------------------------------------------------------ the BFS universe
\* Package names. "ab" contains "a" and "b"; "c" contains neither.
Coords == {<<"a">>, <<"c">>, <<"a", "b">>}

\* Values of --filter ('' is the default, line 285).
Filters == {<< >>, <<"a">>, <<"b">>}

DepLists == UNION {[1..n -> Coords] : n \in 0..MaxDeps}

\* What one call fetch_deps_func(package) does: raise, or return a list.
Answers ==
    {[status |-> "raises", deps |-> << >>]}
        \cup {[status |-> "returns", deps |-> d] : d \in DepLists}

NotCalled == [status |-> "notcalled", deps |-> << >>]

VARIABLES
    \* bfs_build_dependency_graph
    pc,                 \* position in the function
    start_package,      \* parameter
    filter_substring,   \* parameter
    repo,               \* fetch_deps_func: the answer given for each package looked up
    fetched,            \* the packages fetch_deps_func was called with, in call order
    nodes, edges, cycles, filtered_out,
    queue, depth_map,
    current, curr_depth, direct_deps, idx,   \* the for loop over direct_deps
    unique_cycles,      \* the returned 'cycles'
    \* parse_maven_dependencies
    parse_pc,           \* position in the function
    pom_sections,       \* the sections the document declares, in document order
    pom_content,        \* parameter: the document, as its sequence of tags
    dep_section,        \* group(1) of the <dependencies> match
    dependencies,       \* the returned list
    \* fetch_dependencies_mock
    mock_pc,            \* position in the function
    mock_file,          \* what is at mock_file_path
    raw_dependencies,   \* repo[package_name]
    mock_result         \* the returned list

bfsVars == <<pc, start_package, filter_substring, repo, fetched, nodes, edges,
             cycles, filtered_out, queue, depth_map, current, curr_depth,
             direct_deps, idx, unique_cycles>>

parseVars == <<parse_pc, pom_sections, pom_content, dep_section, dependencies>>

mockVars == <<mock_pc, mock_file, raw_dependencies, mock_result>>

vars == <<bfsVars, parseVars, mockVars>>

\* The functions not under study in a specification are not running.
BfsIdle ==
    /\ pc = "idle"
    /\ start_package = << >>
    /\ filter_substring = << >>
    /\ repo = << >>
    /\ fetched = << >>
    /\ nodes = {}
    /\ edges = << >>
    /\ cycles = << >>
    /\ filtered_out = {}
    /\ queue = << >>
    /\ depth_map = << >>
    /\ current = << >>
    /\ curr_depth = 0
    /\ direct_deps = << >>
    /\ idx = 1
    /\ unique_cycles = << >>

ParseIdle ==
    /\ parse_pc = "idle"
    /\ pom_sections = << >>
    /\ pom_content = << >>
    /\ dep_section = << >>
    /\ dependencies = << >>

MockIdle ==
    /\ mock_pc = "idle"
    /\ mock_file = "none"
    /\ raw_dependencies = << >>
    /\ mock_result = << >>

\* ------------------------------------------------- bfs_build_dependency_graph

\* line 202: filter_substring and filter_substring in dep
FilterMatchesExact(dep) == filter_substring # << >> /\ filter_substring = dep

FilterMatchesPrefix(dep) ==
    /\ filter_substring # << >>
    /\ Len(dep) >= Len(filter_substring)
    /\ SubSeq(dep, 1, Len(filter_substring)) = filter_substring

FilterMatches(dep) == filter_substring # << >> /\ Contains(filter_substring, dep)

\* line 210: dep in depth_map
IsVisitedShallower(dep) == dep \in DOMAIN depth_map /\ depth_map[dep] <= curr_depth

IsVisited(dep) == dep \in DOMAIN depth_map

\* line 213: dep_depth <= curr_depth
IsBackEdgeStrict(dep_depth) == dep_depth < curr_depth

IsBackEdge(dep_depth) == dep_depth <= curr_depth

\* line 220/222: curr_depth + 1
NewDepthSame == curr_depth

NewDepth == curr_depth + 1

\* line 207: edges.append((current, dep))
AppendEdgeReversed(dep) == Append(edges, <<dep, current>>)

AppendEdge(dep) == Append(edges, <<current, dep>>)

\* lines 225-231: keep the first witness of every frozenset of endpoints
RECURSIVE Dedup(_, _, _)
Dedup(cycs, seen, acc) ==
    IF cycs = << >> THEN acc
    ELSE LET cyc == Head(cycs)
             key == {cyc[1], cyc[2]}
         IN  IF key \in seen
             THEN Dedup(Tail(cycs), seen, acc)
             ELSE Dedup(Tail(cycs), seen \cup {key}, Append(acc, cyc))

\* lines 172-189
Init ==
    /\ start_package \in Coords
    /\ filter_substring \in Filters
    /\ pc = "while"
    /\ repo = [c \in Coords |-> NotCalled]
    /\ fetched = << >>
    /\ nodes = {start_package}
    /\ edges = << >>
    /\ cycles = << >>
    /\ filtered_out = {}
    /\ depth_map = [c \in {start_package} |-> 0]
    /\ queue = << <<start_package, 0>> >>
    /\ current = start_package
    /\ curr_depth = 0
    /\ direct_deps = << >>
    /\ idx = 1
    /\ unique_cycles = << >>
    /\ ParseIdle
    /\ MockIdle

\* The answer of fetch_deps_func for package p: a function of p (the fixture
\* does not change during a run), drawn the first time p is looked up.
AnswerFor(p) == IF repo[p] = NotCalled THEN Answers ELSE {repo[p]}

\* The lookup raises and nothing catches it: the traversal ends there.
FetchRaisesUncaught ==
    /\ pc = "while"
    /\ queue # << >>
    /\ \E ans \in AnswerFor(Head(queue)[1]) :
          /\ ans.status = "raises"
          /\ repo' = [repo EXCEPT ![Head(queue)[1]] = ans]
    /\ current' = Head(queue)[1]
    /\ curr_depth' = Head(queue)[2]
    /\ fetched' = Append(fetched, Head(queue)[1])
    /\ queue' = Tail(queue)
    /\ direct_deps' = << >>
    /\ idx' = 1
    /\ pc' = "done"
    /\ UNCHANGED <<start_package, filter_substring, nodes, edges, cycles,
                   filtered_out, depth_map, unique_cycles>>
    /\ UNCHANGED <<parseVars, mockVars>>

\* lines 191-198: popleft, fetch_deps_func raises, continue
FetchRaises ==
    /\ pc = "while"
    /\ queue # << >>
    /\ \E ans \in AnswerFor(Head(queue)[1]) :
          /\ ans.status = "raises"
          /\ repo' = [repo EXCEPT ![Head(queue)[1]] = ans]
    /\ current' = Head(queue)[1]
    /\ curr_depth' = Head(queue)[2]
    /\ fetched' = Append(fetched, Head(queue)[1])
    /\ queue' = Tail(queue)
    /\ direct_deps' = << >>
    /\ idx' = 1
    /\ UNCHANGED <<pc, start_package, filter_substring, nodes, edges, cycles,
                   filtered_out, depth_map, unique_cycles>>
    /\ UNCHANGED <<parseVars, mockVars>>

\* lines 191-195, 200: popleft, fetch_deps_func returns direct_deps
FetchReturns ==
    /\ pc = "while"
    /\ queue # << >>
    /\ \E ans \in AnswerFor(Head(queue)[1]) :
          /\ ans.status = "returns"
          /\ repo' = [repo EXCEPT ![Head(queue)[1]] = ans]
          /\ direct_deps' = ans.deps
          /\ pc' = IF ans.deps = << >> THEN "while" ELSE "for"
    /\ current' = Head(queue)[1]
    /\ curr_depth' = Head(queue)[2]
    /\ fetched' = Append(fetched, Head(queue)[1])
    /\ queue' = Tail(queue)
    /\ idx' = 1
    /\ UNCHANGED <<start_package, filter_substring, nodes, edges, cycles,
                   filtered_out, depth_map, unique_cycles>>
    /\ UNCHANGED <<parseVars, mockVars>>

\* line 200: the next iteration of `for dep in direct_deps`, or back to `while`
NextIteration ==
    /\ idx' = idx + 1
    /\ pc' = IF idx = Len(direct_deps) THEN "while" ELSE "for"

\* lines 202-204: the dependency matches the filter
DepFiltered ==
    /\ pc = "for"
    /\ FilterMatches(direct_deps[idx])
    /\ filtered_out' = filtered_out \cup {direct_deps[idx]}
    /\ NextIteration
    /\ UNCHANGED <<start_package, filter_substring, repo, fetched, nodes, edges,
                   cycles, queue, depth_map, current, curr_depth, direct_deps,
                   unique_cycles>>
    /\ UNCHANGED <<parseVars, mockVars>>

\* lines 207-218: the dependency already has a depth
DepVisited ==
    /\ pc = "for"
    /\ ~FilterMatches(direct_deps[idx])
    /\ IsVisited(direct_deps[idx])
    /\ edges' = AppendEdge(direct_deps[idx])
    /\ cycles' = IF IsBackEdge(depth_map[direct_deps[idx]])
                 THEN Append(cycles, <<current, direct_deps[idx]>>)
                 ELSE cycles
    /\ NextIteration
    /\ UNCHANGED <<start_package, filter_substring, repo, fetched, nodes,
                   filtered_out, queue, depth_map, current, curr_depth,
                   direct_deps, unique_cycles>>
    /\ UNCHANGED <<parseVars, mockVars>>

\* lines 207, 219-222: the dependency is new
DepNew ==
    /\ pc = "for"
    /\ ~FilterMatches(direct_deps[idx])
    /\ ~IsVisited(direct_deps[idx])
    /\ edges' = AppendEdge(direct_deps[idx])
    /\ depth_map' = [c \in DOMAIN depth_map \cup {direct_deps[idx]} |->
                        IF c = direct_deps[idx] THEN NewDepth ELSE depth_map[c]]
    /\ nodes' = nodes \cup {direct_deps[idx]}
    /\ queue' = Append(queue, <<direct_deps[idx], NewDepth>>)
    /\ NextIteration
    /\ UNCHANGED <<start_package, filter_substring, repo, fetched, cycles,
                   filtered_out, current, curr_depth, direct_deps, unique_cycles>>
    /\ UNCHANGED <<parseVars, mockVars>>

\* lines 191, 224-238: the queue is empty; deduplicate the cycles and return
Return ==
    /\ pc = "while"
    /\ queue = << >>
    /\ unique_cycles' = Dedup(cycles, {}, << >>)
    /\ pc' = "done"
    /\ UNCHANGED <<start_package, filter_substring, repo, fetched, nodes, edges,
                   cycles, filtered_out, queue, depth_map, current, curr_depth,
                   direct_deps, idx>>
    /\ UNCHANGED <<parseVars, mockVars>>

Next ==
    \/ FetchRaises
    \/ FetchReturns
    \/ DepFiltered
    \/ DepVisited
    \/ DepNew
    \/ Return

Spec == Init /\ [][Next]_vars

\* The loop is sequential code: it keeps running until it returns.
FairSpec == Spec /\ WF_vars(Next)


\* --------------------------------------------------- parse_maven_dependencies

\* A pom.xml as its sequence of tags. <groupId>..</groupId> and
\* <artifactId>..</artifactId> are one tag each, with their text.
Open(t) == [kind |-> "open", tag |-> t, text |-> ""]

Close(t) == [kind |-> "close", tag |-> t, text |-> ""]

Element(t, x) == [kind |-> "element", tag |-> t, text |-> x]

GroupIds == {"g", "h"}

\* "": the entry has no usable <artifactId> (absent, or blank once stripped).
ArtifactIds == {"a", ""}

Entries == [groupId : GroupIds, artifactId : ArtifactIds]

EntryLists == UNION {[1..n -> Entries] : n \in 0..MaxEntries}

Sections == [kind : {"dependencies", "dependencyManagement"}, entries : EntryLists]

Documents == UNION {[1..n -> Sections] : n \in 0..MaxSections}

RECURSIVE Flatten(_)
Flatten(ss) == IF ss = << >> THEN << >> ELSE Head(ss) \o Flatten(Tail(ss))

\* The text of one <dependency> entry.
EntryTags(e) ==
    <<Open("dependency"), Element("groupId", e.groupId)>>
        \o (IF e.artifactId = "" THEN << >>
            ELSE <<Element("artifactId", e.artifactId)>>)
        \o <<Close("dependency")>>

\* The text of one section: <dependencyManagement> wraps its own
\* <dependencies> list.
SectionTags(sec) ==
    LET list == <<Open("dependencies")>>
                    \o Flatten([k \in 1..Len(sec.entries) |-> EntryTags(sec.entries[k])])
                    \o <<Close("dependencies")>>
    IN  IF sec.kind = "dependencyManagement"
        THEN <<Open("dependencyManagement")>> \o list
                 \o <<Close("dependencyManagement")>>
        ELSE list

DocumentTags(doc) == Flatten([k \in 1..Len(doc) |-> SectionTags(doc[k])])

\* Index of the first occurrence of tag t in s at or after position from;
\* 0 when there is none (re.search scans left to right).
FirstAt(s, t, from) ==
    IF \E k \in from..Len(s) : s[k] = t
    THEN CHOOSE k \in from..Len(s) :
             s[k] = t /\ \A j \in from..(k - 1) : s[j] # t
    ELSE 0

\* line 55: re.search(r'<dependencies>(.*?)</dependencies>', pom_content):
\* the first <dependencies> tag of the text, up to the first closing tag.
SectionStart == FirstAt(pom_content, Open("dependencies"), 1)

SectionEnd ==
    IF SectionStart = 0 THEN 0
    ELSE FirstAt(pom_content, Close("dependencies"), SectionStart + 1)

RECURSIVE FindAllBlocks(_, _)
\* line 60: re.findall(r'<dependency>(.*?)</dependency>', dep_section)
FindAllBlocks(s, from) ==
    LET b == FirstAt(s, Open("dependency"), from)
        e == IF b = 0 THEN 0 ELSE FirstAt(s, Close("dependency"), b + 1)
    IN  IF e = 0 THEN << >>
        ELSE <<SubSeq(s, b + 1, e - 1)>> \o FindAllBlocks(s, e + 1)

\* lines 63-67: the text of the first <tag> element of the block, None as ""
FirstText(block, t) ==
    IF \E k \in 1..Len(block) : block[k].kind = "element" /\ block[k].tag = t
    THEN block[CHOOSE k \in 1..Len(block) :
                   /\ block[k].kind = "element" /\ block[k].tag = t
                   /\ \A j \in 1..(k - 1) :
                         ~(block[j].kind = "element" /\ block[j].tag = t)].text
    ELSE ""

RECURSIVE Coordinates(_)
\* lines 62-70: one "group:artifact" per block that has both
Coordinates(blocks) ==
    IF blocks = << >> THEN << >>
    ELSE LET group_id == FirstText(Head(blocks), "groupId")
             artifact_id == FirstText(Head(blocks), "artifactId")
         IN  (IF group_id # "" /\ artifact_id # ""
              THEN <<[groupId |-> group_id, artifactId |-> artifact_id]>>
              ELSE << >>) \o Coordinates(Tail(blocks))

ParseInit ==
    /\ \E doc \in Documents :
          /\ pom_sections = doc
          /\ pom_content = DocumentTags(doc)
    /\ parse_pc = "search"
    /\ dep_section = << >>
    /\ dependencies = << >>
    /\ BfsIdle
    /\ MockIdle

\* lines 55-57: no <dependencies>...</dependencies> in the text
ParseNoSection ==
    /\ parse_pc = "search"
    /\ SectionEnd = 0
    /\ parse_pc' = "done"
    /\ UNCHANGED <<pom_sections, pom_content, dep_section, dependencies>>
    /\ UNCHANGED <<bfsVars, mockVars>>

\* lines 55, 59: the section found
ParseSection ==
    /\ parse_pc = "search"
    /\ SectionEnd # 0
    /\ dep_section' = SubSeq(pom_content, SectionStart + 1, SectionEnd - 1)
    /\ parse_pc' = "blocks"
    /\ UNCHANGED <<pom_sections, pom_content, dependencies>>
    /\ UNCHANGED <<bfsVars, mockVars>>

\* lines 60-72
ParseBlocks ==
    /\ parse_pc = "blocks"
    /\ dependencies' = Coordinates(FindAllBlocks(dep_section, 1))
    /\ parse_pc' = "done"
    /\ UNCHANGED <<pom_sections, pom_content, dep_section>>
    /\ UNCHANGED <<bfsVars, mockVars>>

ParseNext == ParseNoSection \/ ParseSection \/ ParseBlocks

ParseSpec == ParseInit /\ [][ParseNext]_vars

\* ---------------------------------------------------- fetch_dependencies_mock

Chars == {" ", "x"}

\* The entries a fixture list can hold: strings, "" included.
RawStrings == UNION {[1..n -> Chars] : n \in 0..MaxRawLen}

RawLists == UNION {[1..n -> RawStrings] : n \in 0..MaxRawDeps}

RECURSIVE LStrip(_)
LStrip(str) ==
    IF str # << >> /\ Head(str) = " " THEN LStrip(Tail(str)) ELSE str

RECURSIVE RStrip(_)
RStrip(str) ==
    IF str # << >> /\ str[Len(str)] = " "
    THEN RStrip(SubSeq(str, 1, Len(str) - 1))
    ELSE str

\* str.strip()
Strip(str) == RStrip(LStrip(str))

RECURSIVE StripTruthy(_)
\* line 152: [str(dep).strip() for dep in dependencies if dep]
StripTruthy(deps) ==
    IF deps = << >> THEN << >>
    ELSE (IF Head(deps) # << >> THEN <<Strip(Head(deps))>> ELSE << >>)
             \o StripTruthy(Tail(deps))

\* mock_file: "nofile" (line 137), "badjson" (line 143), "absent" (the package
\* is no key of the mapping, line 146), "notlist" (line 150), "list".
MockInit ==
    /\ mock_pc = "start"
    /\ \/ /\ mock_file \in {"nofile", "badjson", "absent", "notlist"}
          /\ raw_dependencies = << >>
       \/ /\ mock_file = "list"
          /\ raw_dependencies \in RawLists
    /\ mock_result = << >>
    /\ BfsIdle
    /\ ParseIdle

\* lines 137-138: FileNotFoundError
MockNoFile ==
    /\ mock_pc = "start"
    /\ mock_file = "nofile"
    /\ mock_pc' = "raised"
    /\ UNCHANGED <<mock_file, raw_dependencies, mock_result>>
    /\ UNCHANGED <<bfsVars, parseVars>>

\* lines 143-144, 146-147, 150-151: ValueError
MockValueError ==
    /\ mock_pc = "start"
    /\ mock_file \in {"badjson", "absent", "notlist"}
    /\ mock_pc' = "raised"
    /\ UNCHANGED <<mock_file, raw_dependencies, mock_result>>
    /\ UNCHANGED <<bfsVars, parseVars>>

\* lines 149, 152
MockReturns ==
    /\ mock_pc = "start"
    /\ mock_file = "list"
    /\ mock_result' = StripTruthy(raw_dependencies)
    /\ mock_pc' = "done"
    /\ UNCHANGED <<mock_file, raw_dependencies>>
    /\ UNCHANGED <<bfsVars, parseVars>>

MockNext == MockNoFile \/ MockValueError \/ MockReturns

MockSpec == MockInit /\ [][MockNext]_vars

\* ------------------------------------------------- graphs, for the properties
\* Direct dependencies of c in the fixture, as far as the traversal looked.
Succ(c) == IF repo[c].status = "returns" THEN Range(repo[c].deps) ELSE {}

RECURSIVE Closure(_, _)
\* The packages reachable from the set S along the relation step (a function
\* from a package to the set of its successors), S included.
Closure(S, step) ==
    LET T == S \cup UNION {step[c] : c \in S}
    IN  IF T = S THEN S ELSE Closure(T, step)

FixtureStep == [c \in Coords |-> Succ(c)]

\* The coordinates reachable from the root in the fixture graph.
Reachable == Closure({start_package}, FixtureStep)

\* The reachable part of the fixture graph has a directed cycle.
HasCycle == \E c \in Reachable : c \in Closure(Succ(c), FixtureStep)

NoLookupFailed == \A c \in Coords : repo[c].status # "raises"

EdgeSet == Range(edges)

EdgeStep == [c \in Coords |-> {e[2] : e \in {f \in EdgeSet : f[1] = c}}]

RECURSIVE StepsTo(_, _, _)
\* c is in P, the packages at most k steps from the root along the recorded
\* edges: k; otherwise look one step further (-1: c is not reachable).
StepsTo(c, P, k) ==
    IF c \in P THEN k
    ELSE IF k >= Cardinality(Coords) THEN -1
    ELSE StepsTo(c, P \cup UNION {EdgeStep[d] : d \in P}, k + 1)

\* Length of the shortest path of recorded edges from the root to c.
Dist(c) == StepsTo(c, {start_package}, 0)

\* The dependencies the traversal has read off some direct_deps list so far.
Listed ==
    UNION {IF c = current /\ pc = "for"
           THEN {direct_deps[k] : k \in 1..(idx - 1)}
           ELSE IF c \in Range(fetched) THEN Succ(c) ELSE {} : c \in Coords}


\* ------------------------------------------------------------------ claims

EdgeEndpoint(c) == \E e \in EdgeSet : e[1] = c \/ e[2] = c

\* C1 as stated: with a non-empty filter, every coordinate the traversal met
\* (the root or a listed dependency) that contains the filter is in
\* filtered_out, is not in nodes and is no endpoint of an edge.
C1_FilteringLawAsStated ==
    (pc = "done" /\ filter_substring # << >>) =>
        \A c \in {start_package} \cup Listed :
            Contains(filter_substring, c) =>
                /\ c \in filtered_out
                /\ c \notin nodes
                /\ ~EdgeEndpoint(c)

\* C1 amended: with a non-empty filter, every listed dependency that contains
\* the filter is in filtered_out and is never the target of an edge; a
\* coordinate that contains the filter is in nodes or the source of an edge
\* only if it is the root.
C1_FilteringLawForDependencies ==
    filter_substring # << >> =>
        \A c \in Coords :
            Contains(filter_substring, c) =>
                /\ c \in Listed => c \in filtered_out
                /\ \A e \in EdgeSet : e[2] # c
                /\ c # start_package => (c \notin nodes /\ ~EdgeEndpoint(c))

\* A dependency is filtered out while the traversal goes on to another node.
C1_Witness ==
    /\ pc = "done"
    /\ filter_substring # << >>
    /\ filtered_out # {}
    /\ Cardinality(nodes) = 2
    /\ ~Contains(filter_substring, start_package)

C3_NoCycleNoWitness ==
    (pc = "done" /\ filter_substring = << >> /\ NoLookupFailed /\ ~HasCycle) =>
        /\ unique_cycles = << >>
        /\ nodes = Reachable

\* C4: every coordinate in nodes is reachable from the root along recorded
\* edges, and the root has depth 0.
C4_NodesReachableByEdges ==
    /\ start_package \in DOMAIN depth_map
    /\ depth_map[start_package] = 0
    /\ nodes \subseteq Closure({start_package}, EdgeStep)

\* All three coordinates are in nodes, one of them with a failed lookup.
C4_Witness ==
    /\ pc = "done"
    /\ Cardinality(nodes) = 3
    /\ \E c \in Coords : repo[c].status = "raises"

\* The step in which fetch_deps_func raises for the dequeued package.
C5_RaiseStep ==
    /\ pc = "while"
    /\ queue # << >>
    /\ repo'[Head(queue)[1]].status = "raises"

\* C5: a lookup that raises changes nothing but the queue, from which only
\* the failing package is removed, and the loop goes on; the failing package
\* stays in nodes and is the source of no edge and of no cycle witness; every
\* package in nodes has been looked up when the function returns; when the
\* root's lookup raises the result is nodes = {root} at depth 0, no edges, no
\* cycles.
C5_LookupFailureNonFatal ==
    /\ [](\A c \in Coords :
            repo[c].status = "raises" =>
                /\ c \in nodes
                /\ \A e \in EdgeSet : e[1] # c
                /\ \A w \in Range(cycles) \cup Range(unique_cycles) : w[1] # c)
    /\ [](pc = "done" =>
            /\ Range(fetched) = nodes
            /\ repo[start_package].status = "raises" =>
                  /\ nodes = {start_package}
                  /\ depth_map = [c \in {start_package} |-> 0]
                  /\ edges = << >>
                  /\ unique_cycles = << >>
                  /\ filtered_out = {})
    /\ [][C5_RaiseStep =>
            /\ pc' = "while"
            /\ queue' = Tail(queue)
            /\ UNCHANGED <<nodes, edges, cycles, filtered_out, depth_map>>]_vars

\* A package other than the root fails, and a package queued behind it is
\* expanded afterwards.
C5_Witness ==
    /\ pc = "done"
    /\ Len(fetched) = 3
    /\ repo[fetched[2]].status = "raises"
    /\ repo[fetched[3]].status = "returns"
    /\ repo[fetched[3]].deps # << >>

\* C6: with a non-empty filter, in every state, no edge has a target that is
\* in filtered_out or contains the filter, and no cycle witness has an
\* endpoint in filtered_out.
C6_FilteredNeverInEdgesOrCycles ==
    filter_substring # << >> =>
        /\ \A e \in EdgeSet :
              e[2] \notin filtered_out /\ ~Contains(filter_substring, e[2])
        /\ \A w \in Range(cycles) \cup Range(unique_cycles) :
              w[1] \notin filtered_out /\ w[2] \notin filtered_out

\* The root itself contains the filter and was filtered as a dependency, and
\* a cycle witness was recorded.
C6_Witness ==
    /\ pc = "done"
    /\ filter_substring # << >>
    /\ start_package \in filtered_out
    /\ unique_cycles # << >>

QueueDepths == [k \in 1..Len(queue) |-> queue[k][2]]

NoDuplicates(s) == \A j, k \in 1..Len(s) : j # k => s[j] # s[k]

\* C10: the traversal returns; no coordinate is enqueued twice or looked up
\* twice; at the return the queue is empty and the number of lookups is the
\* size of nodes.
C10_Terminates ==
    /\ <>(pc = "done")
    /\ [](NoDuplicates(fetched \o [k \in 1..Len(queue) |-> queue[k][1]]))
    /\ [](pc = "done" => queue = << >> /\ Len(fetched) = Cardinality(nodes))

\* A graph with a self-dependency and a cycle through all three coordinates.
C10_Witness ==
    /\ pc = "done"
    /\ Cardinality(nodes) = 3
    /\ \E c \in Coords : c \in Succ(c)
    /\ \A c \in Coords : start_package \in Closure(Succ(c), FixtureStep)

\* The entries with both identifiers, as coordinates, in order.
Declared(entries) ==
    Coordinates([k \in 1..Len(entries) |->
                    <<Element("groupId", entries[k].groupId),
                      Element("artifactId", entries[k].artifactId)>>])

\* The coordinates the top-level <dependencies> sections declare, and those
\* the <dependencyManagement> sections declare.
DeclaredIn(kind) ==
    UNION {Range(Declared(pom_sections[k].entries)) :
              k \in {j \in 1..Len(pom_sections) : pom_sections[j].kind = kind}}

\* The entries of the first top-level <dependencies> section.
FirstTopLevel ==
    LET tops == {k \in 1..Len(pom_sections) : pom_sections[k].kind = "dependencies"}
    IN  IF tops = {} THEN << >>
        ELSE Declared(pom_sections[CHOOSE k \in tops : \A j \in tops : k <= j].entries)

\* C7: the returned list holds no coordinate declared only inside
\* <dependencyManagement>, and is the list of the entries of the first
\* top-level <dependencies> section in document order.
C7_OnlyTopLevelDependencies ==
    parse_pc = "done" =>
        /\ \A d \in Range(dependencies) :
              d \in DeclaredIn("dependencyManagement") => d \in DeclaredIn("dependencies")
        /\ dependencies = FirstTopLevel

RECURSIVE NonEmptyOnly(_)
NonEmptyOnly(ss) ==
    IF ss = << >> THEN << >>
    ELSE (IF Head(ss) # << >> THEN <<Head(ss)>> ELSE << >>) \o NonEmptyOnly(Tail(ss))

\* C8: no returned entry is empty or has surrounding whitespace, and the
\* returned list is the trimmed non-empty entries in their original order.
C8_TrimmedAndNonEmpty ==
    mock_pc = "done" =>
        /\ \A k \in 1..Len(mock_result) :
              /\ mock_result[k] # << >>
              /\ Head(mock_result[k]) # " "
              /\ mock_result[k][Len(mock_result[k])] # " "
        /\ mock_result =
              NonEmptyOnly([k \in 1..Len(raw_dependencies) |-> Strip(raw_dependencies[k])])

=============================================================================
